---------------------------- MODULE Spec2Model ----------------------------
(***************************************************************************)
(* A model of luna (src/luna.go): a Go wrapper around one Lua interpreter. *)
(*                                                                         *)
(* Two specifications share the variables below.                           *)
(*   Spec    : the callers of one Luna instance as concurrent goroutines,  *)
(*             the mutex l.mut, the Lua state's lifetime and the progress  *)
(*             of a running script.                                        *)
(*   SeqSpec : one host goroutine applying whole operations to the Lua     *)
(*             stack and globals (the marshaling engine).                  *)
(***************************************************************************)
EXTENDS Integers, Sequences, FiniteSets, TLC

(* ------------------------------ bounds -------------------------------- *)

\* Number of operations the host applies, one after the other, in SeqSpec.
MaxOps == 3

\* Number of goroutines that call into the one Luna instance.
NumProcs == 2

\* Longest script, in interpreter steps, that a Load, LoadFile or Call runs.
MaxScript == 2

\* A caller's deadline, in interpreter steps, for the timeout claim.
Deadline == 1

Procs == 1..NumProcs

(* ------------------------------- state -------------------------------- *)

VARIABLES
    pc,        \* pc[p]: where goroutine p is inside its current operation
    op,        \* op[p]: the operation goroutine p is executing
    locked,    \* l.mut: TRUE while some goroutine holds the mutex
    closed,    \* TRUE once l.L.Close() has released the Lua state
    elapsed,   \* elapsed[p]: interpreter steps the script of p has run
    res,       \* res[p]: what the last operation of p returned
    crashed,   \* the process died (an outcome of using a released state)
    late,      \* late[p]: p called its operation after a Close had returned
    stack,     \* the Lua stack of l.L, bottom first
    globals,   \* the Lua globals, as the entries of a table
    closures,  \* the closures wrapperGen made, each with its parameter slots
    log,       \* the host function bodies that ran, with their arguments
    err,       \* what the last operation returned as its error
    ret,       \* the LuaRet the last Call returned
    last,      \* the last operation: its inputs and the state it started in
    nops,      \* the number of operations applied so far
    dest       \* the destination the host gave to the last Unmarshal, after it

convars == <<pc, op, locked, closed, elapsed, res, crashed, late>>

datavars == <<stack, globals, closures, log, err, ret, last, nops, dest>>

vars == <<pc, op, locked, closed, elapsed, res, crashed, late,
          stack, globals, closures, log, err, ret, last, nops, dest>>

\* The operations that begin with l.mut.Lock(); defer l.mut.Unlock().
LockedOps == {"Stdout", "LoadFile", "Load", "Close", "Call", "CreateLibrary"}

\* The operations that run Lua code (l.L.DoFile, l.L.DoString, l.L.Call).
ScriptOps == {"LoadFile", "Load", "Call"}

\* FunctionExists takes no lock at all.
UnlockedOps == {"FunctionExists"}

(* ----------------------------- concurrency ---------------------------- *)

\* sync.Mutex.Lock returns only when the mutex is free.
CanAcquireBroken == TRUE

CanAcquire == ~locked

\* A goroutine calls one of the public methods.
Submit(p, o) ==
    /\ ~crashed
    /\ pc[p] = "idle"
    /\ pc' = [pc EXCEPT ![p] = IF o \in LockedOps THEN "lock" ELSE "fe_gettop"]
    /\ op' = [op EXCEPT ![p] = o]
    /\ elapsed' = [elapsed EXCEPT ![p] = 0]
    /\ res' = [res EXCEPT ![p] = "none"]
    /\ late' = [late EXCEPT ![p] = closed /\ ~locked]
    /\ UNCHANGED <<locked, closed, crashed>>

\* l.mut.Lock(), of a method called by the host ("lock") or by a host
\* function that the script of the goroutine called ("in_lock").
Lock(p) ==
    /\ ~crashed
    /\ pc[p] \in {"lock", "in_lock"}
    /\ CanAcquire
    /\ locked' = TRUE
    /\ pc' = [pc EXCEPT ![p] = IF pc[p] = "lock" THEN "run" ELSE "in_run"]
    /\ UNCHANGED <<op, closed, elapsed, res, crashed, late>>

\* The script calls a bridged host function (impl.Call(params) in the
\* wrapperGen closure) whose body calls Load, Call, CreateLibrary or Stdout
\* of the same instance: the goroutine, which holds the mutex since its own
\* Lock, calls l.mut.Lock().
Reenter(p) ==
    /\ ~crashed
    /\ pc[p] = "run"
    /\ op[p] \in ScriptOps
    /\ pc' = [pc EXCEPT ![p] = "in_lock"]
    /\ UNCHANGED <<op, locked, closed, elapsed, res, crashed, late>>

\* One more step of the Lua code run by DoFile, DoString or l.L.Call: the
\* caller stays inside the method, holding the mutex.
ScriptStep(p) ==
    /\ ~crashed
    /\ pc[p] = "run"
    /\ op[p] \in ScriptOps
    /\ elapsed[p] < MaxScript
    /\ elapsed' = [elapsed EXCEPT ![p] = @ + 1]
    /\ UNCHANGED <<pc, op, locked, closed, res, crashed, late>>

\* The results an operation on a live Lua state can return.
LiveResults(o) ==
    IF o \in {"Stdout", "Close"} THEN {"ok"} ELSE {"ok", "error"}

\* The body of the method ends.  No method tests whether the Lua state was
\* closed: on a closed state the call into golua reads freed memory, which
\* may appear to work, may report an error, or may kill the process.
\* The body of a method called by a host function ("in_run") ends the same
\* way; what it returns goes to the host function, not to the caller of p.
Finish(p) ==
    /\ ~crashed
    /\ pc[p] \in {"run", "in_run"}
    /\ \E r \in (IF closed THEN {"ok", "error", "crash"} ELSE LiveResults(op[p])) :
          /\ res' = IF pc[p] = "run" THEN [res EXCEPT ![p] = r] ELSE res
          /\ crashed' = (r = "crash")
    /\ closed' = (closed \/ (pc[p] = "run" /\ op[p] = "Close"))
    /\ pc' = [pc EXCEPT ![p] = IF pc[p] = "run" THEN "unlock" ELSE "in_unlock"]
    /\ UNCHANGED <<op, locked, elapsed, late>>

\* defer l.mut.Unlock(), after which the method returns to its caller: the
\* host, or the host function inside the script of p.
Unlock(p) ==
    /\ ~crashed
    /\ pc[p] \in {"unlock", "in_unlock"}
    /\ locked' = FALSE
    /\ pc' = [pc EXCEPT ![p] = IF pc[p] = "unlock" THEN "idle" ELSE "run"]
    /\ UNCHANGED <<op, closed, elapsed, res, crashed, late>>

\* FunctionExists: top := l.L.GetTop()
FEGetTop(p) ==
    /\ ~crashed
    /\ pc[p] = "fe_gettop"
    /\ pc' = [pc EXCEPT ![p] = "fe_getglobal"]
    /\ UNCHANGED <<op, locked, closed, elapsed, res, crashed, late>>

\* FunctionExists: l.L.GetGlobal(name); exists := l.L.IsFunction(l.L.GetTop())
FEGetGlobal(p) ==
    /\ ~crashed
    /\ pc[p] = "fe_getglobal"
    /\ pc' = [pc EXCEPT ![p] = "fe_settop"]
    /\ UNCHANGED <<op, locked, closed, elapsed, res, crashed, late>>

\* FunctionExists: l.L.SetTop(top); return exists
FESetTop(p) ==
    /\ ~crashed
    /\ pc[p] = "fe_settop"
    /\ pc' = [pc EXCEPT ![p] = "idle"]
    /\ \E r \in {"true", "false"} : res' = [res EXCEPT ![p] = r]
    /\ UNCHANGED <<op, locked, closed, elapsed, crashed, late>>

Init ==
    /\ pc = [p \in Procs |-> "idle"]
    /\ op = [p \in Procs |-> "none"]
    /\ locked = FALSE
    /\ closed = FALSE
    /\ elapsed = [p \in Procs |-> 0]
    /\ res = [p \in Procs |-> "none"]
    /\ crashed = FALSE
    /\ late = [p \in Procs |-> FALSE]
    /\ stack = <<>>
    /\ globals = <<>>
    /\ closures = <<>>
    /\ log = <<>>
    /\ err = "none"
    /\ ret = <<>>
    /\ last = [op |-> "New"]
    /\ nops = 0
    /\ dest = [kind |-> "nil", val |-> 0]

Next ==
    /\ \E p \in Procs :
          \/ \E o \in LockedOps \cup UnlockedOps : Submit(p, o)
          \/ Lock(p)
          \/ ScriptStep(p)
          \/ Reenter(p)
          \/ Finish(p)
          \/ Unlock(p)
          \/ FEGetTop(p)
          \/ FEGetGlobal(p)
          \/ FESetTop(p)
    /\ UNCHANGED datavars

Spec == Init /\ [][Next]_vars

\* A goroutine that is inside a method goes on: the body of the method ends
\* once its script has, and the deferred Unlock runs.
Returns(p) == (Finish(p) \/ Unlock(p)) /\ UNCHANGED datavars

LiveSpec == Spec /\ \A p \in Procs : WF_vars(Returns(p))

(* ----------------------------- Lua values ----------------------------- *)

\* The values of the Lua stack.  A table is a sequence of <<key, value>>
\* entries; a gofunction is the index of a wrapperGen closure in closures.
LNil == [kind |-> "nil", val |-> 0]

LBool(b) == [kind |-> "boolean", val |-> b]

LNum(n) == [kind |-> "number", val |-> n]

LStr(s) == [kind |-> "string", val |-> s]

LTable(entries) == [kind |-> "table", val |-> entries]

LFunc(body) == [kind |-> "function", val |-> body]

LGoFunc(id) == [kind |-> "gofunction", val |-> id]

SameL(a, b) == a.kind = b.kind /\ a.val = b.val

\* lua_gettable / lua_getfield on a table's entries.
TableGet(entries, k) ==
    LET hit == {i \in 1..Len(entries) : SameL(entries[i][1], k)}
    IN  IF hit = {} THEN LNil ELSE entries[CHOOSE i \in hit : TRUE][2]

\* lua_settable / lua_setfield on a table's entries: storing nil removes.
TableSet(entries, k, v) ==
    LET rest == SelectSeq(entries, LAMBDA e : ~SameL(e[1], k))
    IN  IF v.kind = "nil" THEN rest ELSE Append(rest, <<k, v>>)

(* ----------------------------- host values ---------------------------- *)

\* The Go values handed to Call and CreateLibrary as interface{}.
HNil == [kind |-> "nil", val |-> 0]

HInt(n) == [kind |-> "int", val |-> n]

HFloat(n) == [kind |-> "float64", val |-> n]

HStr(s) == [kind |-> "string", val |-> s]

HBool(b) == [kind |-> "bool", val |-> b]

HChan == [kind |-> "chan", val |-> 0]

\* fields: a sequence of [name, exported, v]
HStruct(fields) == [kind |-> "struct", val |-> fields]

HSlice(elems) == [kind |-> "slice", val |-> elems]

\* entries: a sequence of <<key, value>> host values
HMap(entries) == [kind |-> "map", val |-> entries]

\* target: <<>> for a nil pointer, <<v>> for a pointer to v
HPtr(target) == [kind |-> "ptr", val |-> target]

\* f: [name, params, variadic, rets]
HFunc(f) == [kind |-> "func", val |-> f]

(* --------------------------- the Lua stack ---------------------------- *)

\* The interpreter as the operations see it: m.stack, m.globals, the
\* wrapperGen closures, the log of host function bodies that ran, and m.st,
\* how the Go code is leaving: "ok", "error" (an error value being returned),
\* "panic_s" / "panic_e" (a Go panic carrying a string / an error value),
\* "luaerr" (a Lua error raised in a script), "ub" (a Lua API call with an
\* index that is not on the stack or not a table, or an unprotected Lua
\* error).  m.events collects what happened on the way (the failures met,
\* "pcall" for a function called through l.L.Call), m.out the values a
\* function returned, m.callerr what l.L.Call returned.
Fail(m, how, why) == [m EXCEPT !.st = how, !.events = @ \cup {why}]

\* Something that is met and does not change how the Go code leaves.
Note(m, why) == [m EXCEPT !.events = @ \cup {why}]

GetTop(m) == Len(m.stack)

Push(m, v) == [m EXCEPT !.stack = Append(@, v)]

Pop(m, n) == [m EXCEPT !.stack = SubSeq(@, 1, Len(@) - n)]

\* lua_settop: cut the stack, or fill it with nil, to height n.
SetTop(m, n) ==
    [m EXCEPT !.stack =
        IF n <= Len(@) THEN SubSeq(@, 1, n)
        ELSE @ \o [i \in 1..(n - Len(@)) |-> LNil]]

AbsIndex(m, idx) == IF idx > 0 THEN idx ELSE Len(m.stack) + idx + 1

ValidIndex(m, idx) == AbsIndex(m, idx) >= 1 /\ AbsIndex(m, idx) <= Len(m.stack)

NewTable(m) == Push(m, LTable(<<>>))

GetGlobal(m, name) == Push(m, TableGet(m.globals, LStr(name)))

\* lua_setglobal: pops the top value into the global.
SetGlobal(m, name) ==
    IF Len(m.stack) < 1 THEN Fail(m, "ub", "index")
    ELSE [m EXCEPT !.globals = TableSet(@, LStr(name), m.stack[Len(m.stack)]),
                   !.stack = SubSeq(@, 1, Len(@) - 1)]

\* lua_setfield(idx, name): t[name] = top, pops the value.
SetField(m, idx, name) ==
    IF ~ValidIndex(m, idx) \/ Len(m.stack) < 1 THEN Fail(m, "ub", "index")
    ELSE LET a == AbsIndex(m, idx)
             t == m.stack[a]
             v == m.stack[Len(m.stack)]
         IN  IF t.kind # "table" THEN Fail(m, "ub", "index")
             ELSE [m EXCEPT !.stack =
                      SubSeq([@ EXCEPT ![a] = LTable(TableSet(t.val, LStr(name), v))],
                             1, Len(@) - 1)]

\* lua_settable(idx): t[key] = value for the two top values, pops both.
SetTable(m, idx) ==
    IF ~ValidIndex(m, idx) \/ Len(m.stack) < 2 THEN Fail(m, "ub", "index")
    ELSE LET a == AbsIndex(m, idx)
             t == m.stack[a]
             k == m.stack[Len(m.stack) - 1]
             v == m.stack[Len(m.stack)]
         IN  IF t.kind # "table" \/ k.kind = "nil" THEN Fail(m, "ub", "index")
             ELSE [m EXCEPT !.stack =
                      SubSeq([@ EXCEPT ![a] = LTable(TableSet(t.val, k, v))],
                             1, Len(@) - 2)]

(* ------------------------- encode: host -> Lua ------------------------ *)

\* The types pushBasicType's type switch names.
BasicKinds ==
    {"float32", "float64", "int", "int8", "int16", "int32", "int64", "uint",
     "uint8", "uint16", "uint32", "uint64", "string", "bool", "nil"}

IsBasic(arg) == arg.kind \in BasicKinds

\* pushBasicType, for an argument of one of the BasicKinds.
pushBasicType(m, arg) ==
    CASE arg.kind = "string" -> Push(m, LStr(arg.val))
      [] arg.kind = "bool" -> Push(m, LBool(arg.val))
      [] arg.kind = "nil" -> Push(m, LNil)
      [] OTHER -> Push(m, LNum(arg.val))

\* wrapperGen's outer part: the parameter slots are made once, here, and
\* the closure keeps them for all its invocations.
wrapperGen(m, f) ==
    [m EXCEPT !.closures = Append(@, [f |-> f, params |-> f.params])]

\* l.L.PushGoFunction(wrapperGen(l, reflect.ValueOf(arg)))
PushGoFunction(m, f) ==
    LET m1 == wrapperGen(m, f) IN Push(m1, LGoFunc(Len(m1.closures)))

RECURSIVE pushComplexType(_, _)
RECURSIVE pushStructFields(_, _, _)
RECURSIVE pushSliceElems(_, _, _)
RECURSIVE pushMapEntries(_, _, _)

\* l.L.SetField(idx, name) after a push that may have failed: on a failure
\* the function has returned (or panicked) before it.
SetFieldAfter(m, idx, name) == IF m.st # "ok" THEN m ELSE SetField(m, idx, name)

\* l.L.SetTable(idx) after a push that may have failed.
SetTableAfter(m, idx) == IF m.st # "ok" THEN m ELSE SetTable(m, idx)

\* if l.pushBasicType(arg) { continue }; err = l.pushComplexType(arg)
pushArg(m, arg) ==
    IF IsBasic(arg) THEN pushBasicType(m, arg) ELSE pushComplexType(m, arg)

CanInterfaceAlways(fld) == TRUE

\* field.CanInterface(): false for an unexported field.
CanInterface(fld) == fld.exported

\* The loop of pushStruct from field i on; the table is at -1 on entry.
pushStructFields(m, fields, i) ==
    IF m.st # "ok" \/ i > Len(fields) THEN m
    ELSE IF ~CanInterface(fields[i]) THEN pushStructFields(m, fields, i + 1)
    ELSE pushStructFields(SetFieldAfter(pushArg(m, fields[i].v), -2, fields[i].name),
                          fields, i + 1)

pushStruct(m, arg) == pushStructFields(NewTable(m), arg.val, 1)

sliceKeyZeroBased(i) == LNum(i - 1)

\* l.L.PushInteger(int64(i + 1)) for the Go index i: the Lua key of the
\* i-th element, counted from 1 here as in Lua.
sliceKey(i) == LNum(i)

\* The loop of pushSlice from element i on.
pushSliceElems(m, elems, i) ==
    IF m.st # "ok" \/ i > Len(elems) THEN m
    ELSE pushSliceElems(SetTableAfter(pushArg(Push(m, sliceKey(i)), elems[i]), -3),
                        elems, i + 1)

pushSlice(m, arg) == pushSliceElems(NewTable(m), arg.val, 1)

\* l.pushBasicType(key) of pushMap: its result is not looked at, so a key
\* that is not of a basic type pushes nothing.
pushKey(m, k) == IF IsBasic(k) THEN pushBasicType(m, k) ELSE m

\* The loop of pushMap from entry i on.
pushMapEntries(m, entries, i) ==
    IF m.st # "ok" \/ i > Len(entries) THEN m
    ELSE pushMapEntries(
             SetTableAfter(pushArg(pushKey(m, entries[i][1]), entries[i][2]), -3),
             entries, i + 1)

pushMap(m, arg) == pushMapEntries(NewTable(m), arg.val, 1)

\* pushComplexType.  reflect.ValueOf(arg).Elem() of a nil pointer is the
\* zero Value, whose Interface() panics (with a *reflect.ValueError).
pushComplexType(m, arg) ==
    CASE arg.kind = "struct" -> pushStruct(m, arg)
      [] arg.kind = "func" -> PushGoFunction(m, arg.val)
      [] arg.kind \in {"array", "slice"} -> pushSlice(m, arg)
      [] arg.kind = "map" -> pushMap(m, arg)
      [] arg.kind = "ptr" ->
            IF arg.val = <<>> THEN Fail(m, "panic_e", "nilptr")
            ELSE pushArg(m, arg.val[1])
      [] OTHER -> Fail(m, "error", "encode")

(* ------------------------- decode: Lua -> host ------------------------ *)

RECURSIVE pop(_)

\* The entries of a table whose key is of the given Lua type, each value
\* decoded by pop.
popEntries(entries, keykind) ==
    LET sel == SelectSeq(entries, LAMBDA e : e[1].kind = keykind)
    IN  [i \in 1..Len(sel) |-> <<sel[i][1].val, pop(sel[i][2])>>]

\* Luna.pop: the Go LuaValue for the Lua value at an index.
pop(lv) ==
    CASE lv.kind = "number" -> [kind |-> "LuaNumber", val |-> lv.val]
      [] lv.kind = "boolean" -> [kind |-> "LuaBool", val |-> lv.val]
      [] lv.kind = "string" -> [kind |-> "LuaString", val |-> lv.val]
      [] lv.kind = "nil" -> [kind |-> "LuaNil", val |-> 0]
      [] lv.kind = "table" ->
            [kind |-> "LuaTable",
             val |-> [indexed |-> popEntries(lv.val, "number"),
                      mapped |-> popEntries(lv.val, "string"),
                      booled |-> popEntries(lv.val, "boolean")]]
      [] OTHER -> [kind |-> "luaTypeError", val |-> 0]

(* --------------------- the bridge: Lua -> host call ------------------- *)

IntKinds == {"int", "int8", "int16", "int32", "int64"}

UintKinds == {"uint", "uint8", "uint16", "uint32", "uint64"}

FloatKinds == {"float32", "float64"}

\* The value at a stack index, LUA_TNONE when the index is not on the stack.
ValueAt(m, i) ==
    IF ValidIndex(m, i) THEN m.stack[AbsIndex(m, i)] ELSE [kind |-> "none", val |-> 0]

RECURSIVE set(_, _, _, _)
RECURSIVE tableToStructLoop(_, _, _, _)
RECURSIVE tableToStructNext(_, _, _, _, _)

\* The field of a struct value that FieldByName(name) finds: its index, 0
\* when there is none.
FieldIndex(val, name) ==
    LET hit == {k \in 1..Len(val.val) : val.val[k].name = name}
    IN  IF hit = {} THEN 0 ELSE CHOOSE k \in hit : TRUE

\* The result of a decoding step: the interpreter, the slot as it is now,
\* and how the step left.
Decoded(m, slot, r) == [m |-> m, slot |-> slot, r |-> r]

\* tableToStruct after l.set(field, -1) gave s for field fi:
\* if err != nil { return }; l.L.Pop(1); and on to the next entry.
tableToStructNext(s, val, a, j, fi) ==
    IF s.r # "ok" THEN Decoded(s.m, val, s.r)
    ELSE tableToStructLoop(Pop(s.m, 1), [val EXCEPT !.val[fi].v = s.slot], a, j + 1)

\* The loop of tableToStruct at entry j of the table at absolute index a;
\* the previous key (nil at first) is on top of the stack.
tableToStructLoop(m, val, a, j) ==
    LET entries == m.stack[a].val IN
    IF j > Len(entries)
    THEN \* Next returned 0 and popped the key; then l.L.Pop(1)
         Decoded(Pop(m, 2), val, "ok")
    ELSE LET k == entries[j][1]
             m1 == Push(Push(Pop(m, 1), k), entries[j][2])
         IN  IF k.kind \notin {"string", "number"}
             THEN Decoded(Note(m1, "decode"), val, "error")
             ELSE IF k.kind = "number"
             THEN \* ToString turns the key on the stack into a string,
                  \* after which lua_next raises "invalid key to 'next'"
                  Decoded(Fail(m1, "ub", "index"), val, "ub")
             ELSE IF val.kind # "struct"
             THEN Decoded(Fail(m1, "panic_e", "decode"), val, "panic_e")
             ELSE LET fi == FieldIndex(val, k.val) IN
                  IF fi = 0
                  THEN tableToStructLoop(Pop(m1, 1), val, a, j + 1)
                  ELSE tableToStructNext(
                           set(m1, val.val[fi].v, -1, ~val.val[fi].exported),
                           val, a, j, fi)

\* Luna.tableToStruct: l.L.PushNil(), then the loop over l.L.Next(i).
tableToStruct(m, val, i) ==
    LET m0 == Push(m, LNil) IN
    IF ValueAt(m0, i).kind # "table"
    THEN Decoded(Fail(m0, "ub", "index"), val, "ub")
    ELSE tableToStructLoop(m0, val, AbsIndex(m0, i), 1)

\* Luna.set: decode the Lua value at index i into the slot val.  ro: the
\* slot was reached through an unexported field, so every reflect Set
\* panics in mustBeAssignable, with a string.  SetBool and SetString on a
\* slot of another kind panic with a *reflect.ValueError, an error value.
set(m, val, i, ro) ==
    LET lv == ValueAt(m, i) IN
    CASE lv.kind = "number" ->
            IF val.kind \in IntKinds \cup UintKinds \cup FloatKinds
            THEN IF ro THEN Decoded(Fail(m, "panic_s", "unexported"), val, "panic_s")
                 ELSE Decoded(m, [val EXCEPT !.val = lv.val], "ok")
            ELSE Decoded(Note(m, "decode"), val, "error")
      [] lv.kind = "boolean" ->
            IF ro THEN Decoded(Fail(m, "panic_s", "unexported"), val, "panic_s")
            ELSE IF val.kind = "bool"
            THEN Decoded(m, [val EXCEPT !.val = lv.val], "ok")
            ELSE Decoded(Fail(m, "panic_e", "decode"), val, "panic_e")
      [] lv.kind = "string" ->
            IF ro THEN Decoded(Fail(m, "panic_s", "unexported"), val, "panic_s")
            ELSE IF val.kind = "string"
            THEN Decoded(m, [val EXCEPT !.val = lv.val], "ok")
            ELSE Decoded(Fail(m, "panic_e", "decode"), val, "panic_e")
      [] lv.kind = "table" -> tableToStruct(m, val, i)
      [] OTHER -> Decoded(Note(m, "decode"), val, "error")

RECURSIVE wrapperArgs(_, _, _, _, _)
RECURSIVE wrapperVariadic(_, _, _, _, _)
RECURSIVE wrapperFixed(_, _, _, _, _)

\* The closure after l.set gave s for the variadic argument i:
\* params[i-1] = reflect.Append(params[i-1], val.Elem())
wrapperVariadic(s, f, params, i, failed) ==
    IF s.r \notin {"ok", "error"}
    THEN [m |-> s.m, params |-> params, failed |-> TRUE]
    ELSE wrapperArgs(s.m, f, [params EXCEPT ![i] = HSlice(Append(@.val, s.slot))],
                     i + 1, failed \/ s.r = "error")

\* The closure after l.set(params[i-1], i) gave s for the argument i.
wrapperFixed(s, f, params, i, failed) ==
    IF s.r \notin {"ok", "error"}
    THEN [m |-> s.m, params |-> [params EXCEPT ![i] = s.slot], failed |-> TRUE]
    ELSE wrapperArgs(s.m, f, [params EXCEPT ![i] = s.slot], i + 1,
                     failed \/ s.r = "error")

\* The loop of the wrapperGen closure over the arguments i..nargs.  The
\* error that l.set returns is dropped; a panic in it is not.  failed is
\* TRUE once some argument was not decoded.
wrapperArgs(m, f, params, i, failed) ==
    IF i > m.nargs THEN [m |-> m, params |-> params, failed |-> failed]
    ELSE IF i >= Len(f.params) /\ f.variadic
    THEN IF i > Len(params)
         THEN \* params[i-1]: index out of range
              [m |-> Fail(m, "panic_e", "index"), params |-> params, failed |-> failed]
         ELSE wrapperVariadic(set(m, f.velem, i, FALSE), f, params, i, failed)
    ELSE IF i > Len(f.params) THEN [m |-> m, params |-> params, failed |-> failed]
    ELSE wrapperFixed(set(m, params[i], i, FALSE), f, params, i, failed)

RECURSIVE pushRets(_, _, _)

\* if err := l.pushComplexType(val); err != nil { panic(err) }
PanicOnError(m) == IF m.st = "error" THEN [m EXCEPT !.st = "panic_e"] ELSE m

\* The loop that pushes what the host function returned.
pushRets(m, rets, i) ==
    IF m.st # "ok" \/ i > Len(rets) THEN m
    ELSE pushRets(PanicOnError(pushArg(m, rets[i])), rets, i + 1)

\* The values above height h: what the closure returns to Lua.
wrapperReturn(m, h) ==
    IF m.st # "ok" THEN m ELSE [m EXCEPT !.out = SubSeq(m.stack, h + 1, Len(m.stack))]

\* impl.Call(params) / impl.CallSlice(params) and the loop over its
\* results.  The host function body that runs is recorded in m.log with the
\* arguments it was given and the height of the stack of the frame.
wrapperInvoke(m, f, params, n, failed) ==
    wrapperReturn(
        pushRets([m EXCEPT !.log = Append(@, [name |-> f.name, args |-> params,
                                              nargs |-> n, np |-> Len(f.params),
                                              failed |-> failed,
                                              top |-> Len(m.stack)])],
                 f.rets, 1),
        Len(m.stack))

\* The closure after its loop over the arguments gave a.  The parameter
\* slots belong to the closure, not to the invocation: what was written to
\* them stays.
wrapperDecoded(a, id) ==
    IF a.m.st # "ok" THEN [a.m EXCEPT !.closures[id].params = a.params]
    ELSE wrapperInvoke([a.m EXCEPT !.closures[id].params = a.params],
                       a.m.closures[id].f, a.params, a.m.nargs, a.failed)

\* params[len(params)-1] = reflect.MakeSlice(..., 0, 0) of a variadic closure
wrapperSlots(c) ==
    IF c.f.variadic THEN [c.params EXCEPT ![Len(c.f.params)] = HSlice(<<>>)]
    ELSE c.params

\* One invocation of the closure wrapperGen returned for closure id, in a
\* frame whose stack holds the arguments.
wrapperCall(m, id, args) ==
    LET c == m.closures[id]
        m0 == [m EXCEPT !.stack = args, !.nargs = Len(args), !.out = <<>>]
    IN  IF Len(args) < Len(c.f.params) THEN Fail(m0, "panic_s", "arity")
        ELSE wrapperDecoded(wrapperArgs(m0, c.f, wrapperSlots(c), 1, FALSE), id)

(* ----------------------- Unmarshal: LuaValue -> host ------------------ *)

\* Destinations of Unmarshal are host values; a slice, an array and a map
\* also carry the zero value of their element type, a map its key kind.
DSlice(zero, elems) == [kind |-> "slice", val |-> elems, elem |-> zero]

DArray(zero, elems) == [kind |-> "array", val |-> elems, elem |-> zero]

DMap(keykind, zero, entries) ==
    [kind |-> "map", val |-> entries, key |-> keykind, elem |-> zero]

RECURSIVE Zero(_)

\* reflect.Zero of the type of a destination.
Zero(slot) ==
    CASE slot.kind \in IntKinds \cup UintKinds \cup FloatKinds -> [slot EXCEPT !.val = 0]
      [] slot.kind = "string" -> [slot EXCEPT !.val = ""]
      [] slot.kind = "bool" -> [slot EXCEPT !.val = FALSE]
      [] slot.kind = "array" -> [slot EXCEPT !.val = [i \in 1..Len(@) |-> slot.elem]]
      [] slot.kind = "struct" ->
            [slot EXCEPT !.val = [i \in 1..Len(@) |-> [@[i] EXCEPT !.v = Zero(@)]]]
      [] slot.kind \in {"slice", "map", "ptr"} -> [slot EXCEPT !.val = <<>>]
      [] OTHER -> slot

\* srcVal.Type().ConvertibleTo(destType), for the Go types of the LuaValues:
\* LuaNumber is a float64, LuaBool a bool, LuaString and luaTypeError are
\* strings, LuaNil is a []int.
ConvertibleTo(lv, slot) ==
    CASE lv.kind = "LuaNumber" -> slot.kind \in IntKinds \cup UintKinds \cup FloatKinds
      [] lv.kind = "LuaBool" -> slot.kind = "bool"
      [] lv.kind \in {"LuaString", "luaTypeError"} -> slot.kind = "string"
      [] lv.kind = "LuaNil" -> slot.kind = "slice" /\ slot.elem.kind = "int"
      [] OTHER -> FALSE

\* destVal.Set(srcVal.Convert(destType)), for a convertible pair.
Convert(lv, slot) ==
    CASE lv.kind = "LuaNil" -> [slot EXCEPT !.val = <<>>]
      [] lv.kind = "luaTypeError" -> [slot EXCEPT !.val = "luaTypeError"]
      [] OTHER -> [slot EXCEPT !.val = lv.val]

\* The result of an Unmarshal: the destination as it is now, and the error.
Unmarshaled(slot, e) == [slot |-> slot, err |-> e]

\* convertBasic
convertBasic(lv, slot) ==
    IF ConvertibleTo(lv, slot) THEN Unmarshaled(Convert(lv, slot), "nil")
    ELSE Unmarshaled(slot, "error")

\* LuaNil.Unmarshal.  The switch is on the kind of the pointer the caller
\* passed, which the test before it has found to be reflect.Ptr, so the
\* first case is always taken.
NilUnmarshal(slot) == Unmarshaled(Zero(slot), "nil")

RECURSIVE Items(_, _)

\* LuaTable.Slice from key i on: the values at the keys i, i+1, ... up to
\* the first key that is missing.
Items(indexed, i) ==
    LET hit == {j \in 1..Len(indexed) : indexed[j][1] = i}
    IN  IF hit = {} THEN <<>>
        ELSE <<indexed[CHOOSE j \in hit : TRUE][2]>> \o Items(indexed, i + 1)

\* strings.Title, on the keys the scripts use.
Title(k) ==
    CASE k = "a" -> "A"
      [] k = "b" -> "B"
      [] OTHER -> k

\* destVal.SetLen(len(items)) or a new slice of that length.
Resized(slot, n) ==
    IF Len(slot.val) >= n THEN SubSeq(slot.val, 1, n) ELSE [i \in 1..n |-> slot.elem]

RECURSIVE convertTableVal(_, _)
RECURSIVE fillItems(_, _, _, _)
RECURSIVE fillFields(_, _, _)
RECURSIVE fillMap(_, _, _, _)

\* if er := convertTableVal(v, dest.Interface()); er != nil { err = er }
\* else { destVal.Index(i).Set(dest.Elem()) }
storeItem(elems, i, r) == IF r.err = "nil" THEN [elems EXCEPT ![i] = r.slot] ELSE elems

\* The loop over the items of the slice case.
fillItems(elems, zero, items, i) ==
    IF i > Len(items) THEN elems
    ELSE fillItems(storeItem(elems, i, convertTableVal(items[i], zero)),
                   zero, items, i + 1)

\* convertTableVal(v, field) of the struct case; field 0 is no field.
storeField(slot, fi, lv) ==
    IF fi = 0 THEN slot
    ELSE [slot EXCEPT !.val[fi].v = convertTableVal(lv, slot.val[fi].v).slot]

\* The loop over lv.mapped of the struct case.
fillFields(slot, mapped, j) ==
    IF j > Len(mapped) THEN slot
    ELSE fillFields(storeField(slot, FieldIndex(slot, Title(mapped[j][1])), mapped[j][2]),
                    mapped, j + 1)

\* setMap: the value is converted into a new element, which is put in the
\* map when the conversion worked; the error is returned and not looked at.
storeEntry(entries, k, r) ==
    IF r.err # "nil" THEN entries
    ELSE Append(SelectSeq(entries, LAMBDA e : e[1] # k), <<k, r.slot>>)

\* The loop over the entries of the map case.
fillMap(entries, zero, src, j) ==
    IF j > Len(src) THEN entries
    ELSE fillMap(storeEntry(entries, src[j][1], convertTableVal(src[j][2], zero)),
                 zero, src, j + 1)

\* The entries of a LuaTable that the map case reads for a key kind.
mapSource(lv, keykind) ==
    CASE keykind \in IntKinds \cup UintKinds \cup FloatKinds -> lv.val.indexed
      [] keykind = "string" -> lv.val.mapped
      [] keykind = "bool" -> lv.val.booled
      [] OTHER -> <<>>

\* LuaTable.Unmarshal.  Every path that does not return early ends in
\* "return nil", whatever was assigned to err on the way.
TableUnmarshal(lv, slot) ==
    CASE slot.kind = "slice" ->
            Unmarshaled([slot EXCEPT !.val =
                            fillItems(Resized(slot, Len(Items(lv.val.indexed, 1))),
                                      slot.elem, Items(lv.val.indexed, 1), 1)],
                        "nil")
      [] slot.kind = "array" ->
            IF Len(slot.val) < Len(Items(lv.val.indexed, 1))
            THEN Unmarshaled(slot, "error")
            ELSE Unmarshaled([slot EXCEPT !.val =
                                 fillItems(@, slot.elem, Items(lv.val.indexed, 1), 1)],
                             "nil")
      [] slot.kind = "struct" -> Unmarshaled(fillFields(slot, lv.val.mapped, 1), "nil")
      [] slot.kind = "map" ->
            IF slot.key \in IntKinds \cup UintKinds \cup FloatKinds \cup {"string", "bool"}
            THEN Unmarshaled([slot EXCEPT !.val =
                                 fillMap(@, slot.elem, mapSource(lv, slot.key), 1)],
                             "nil")
            ELSE Unmarshaled(slot, "error")
      [] OTHER -> Unmarshaled(slot, "nil")

convertTableVal(lv, slot) ==
    IF lv.kind = "LuaTable" THEN TableUnmarshal(lv, slot) ELSE convertBasic(lv, slot)

\* lv.Unmarshal(&slot) for a LuaValue lv.
Unmarshal(lv, slot) ==
    CASE lv.kind = "LuaNil" -> NilUnmarshal(slot)
      [] lv.kind = "LuaTable" -> TableUnmarshal(lv, slot)
      [] lv.kind = "luaTypeError" -> Unmarshaled(slot, "error")
      [] OTHER -> convertBasic(lv, slot)

\* LuaRet.Unmarshal(&slot)
RetUnmarshal(lr, slot) ==
    IF Len(lr) # 1 THEN Unmarshaled(slot, "error") ELSE Unmarshal(lr[1], slot)

(* ------------------------- running Lua code --------------------------- *)

\* The message a Lua error leaves on the stack.
ErrMsg == LStr("error")

RECURSIVE runCalls(_, _, _)

\* The statements lib.member(args) (or member(args) when lib is "") of a
\* Lua function body, from statement j on.
runCalls(m, calls, j) ==
    IF m.st # "ok" \/ j > Len(calls) THEN m
    ELSE LET c == calls[j]
             lib == TableGet(m.globals, LStr(c.lib))
             target == IF c.lib = "" THEN TableGet(m.globals, LStr(c.member))
                       ELSE IF lib.kind = "table" THEN TableGet(lib.val, LStr(c.member))
                       ELSE LNil
         IN  IF target.kind = "gofunction"
             THEN runCalls(wrapperCall(m, target.val, c.args), calls, j + 1)
             ELSE Fail(m, "luaerr", "script")

RECURSIVE defGlobals(_, _, _)

\* The assignments to globals (function definitions) of a Lua chunk.
defGlobals(g, defs, j) ==
    IF j > Len(defs) THEN g
    ELSE defGlobals(TableSet(g, LStr(defs[j][1]), defs[j][2]), defs, j + 1)

\* What a Lua function does when called: its assignments to globals, its
\* calls, and its return values.
luaFunction(m, body, args) ==
    [runCalls([m EXCEPT !.globals = defGlobals(@, body.defs, 1)], body.calls, 1)
        EXCEPT !.out = IF body.ret = "arg1"
                       THEN <<IF Len(args) >= 1 THEN args[1] ELSE LNil>>
                       ELSE body.consts]

\* The end of golua's l.L.Call: the function and the arguments are replaced
\* by the results, or by the message of a Lua error.  A Go panic raised by a
\* bridged function unwinds to the recover() in golua's Call, which returns
\* the panic value when it is an error and nil otherwise; the Lua state is
\* left inside the frame of the bridged function.
pcallReturn(ran, base) ==
    Note(CASE ran.st = "ok" ->
                [ran EXCEPT !.stack = base \o ran.out, !.callerr = "nil"]
           [] ran.st = "luaerr" ->
                [ran EXCEPT !.stack = Append(base, ErrMsg), !.st = "ok",
                            !.callerr = "error"]
           [] ran.st = "panic_s" -> [ran EXCEPT !.st = "ok", !.callerr = "nil"]
           [] ran.st = "panic_e" -> [ran EXCEPT !.st = "ok", !.callerr = "error"]
           [] OTHER -> ran,
         "pcall")

\* What golua's l.L.Call(nargs, LUA_MULTRET) does: a protected call of the
\* function below the nargs arguments.
goluaCall(m, nargs) ==
    LET h == Len(m.stack)
        fn == m.stack[h - nargs]
        args == SubSeq(m.stack, h - nargs + 1, h)
    IN  pcallReturn(
            CASE fn.kind = "function" -> luaFunction(m, fn.val, args)
              [] fn.kind = "gofunction" -> wrapperCall(m, fn.val, args)
              [] OTHER -> Fail(m, "luaerr", "script"),
            SubSeq(m.stack, 1, h - nargs - 1))

(* --------------------------- the operations --------------------------- *)

\* The interpreter of the current state, entered by an operation.
Machine ==
    [stack |-> stack, globals |-> globals, closures |-> closures, log |-> log,
     st |-> "ok", events |-> {}, out |-> <<>>, callerr |-> "nil", nargs |-> 0]

\* How a Go panic or an undefined Lua API call shows to the caller.
Escaped(m) == IF m.st = "ub" THEN "ub" ELSE "panic"

RECURSIVE pushArgs(_, _, _)

\* The loop of Call over its arguments, left at the first error.
pushArgs(m, args, i) ==
    IF m.st # "ok" \/ i > Len(args) THEN m
    ELSE pushArgs(pushArg(m, args[i]), args, i + 1)

\* The LuaRet that Call builds: every value of the stack, bottom first.
popAll(m) == [i \in 1..Len(m.stack) |-> pop(m.stack[i])]

\* The result of an operation: the interpreter it leaves, its error and
\* its return values.
Returned(m, e, r) == [m |-> m, err |-> e, ret |-> r]

\* Call after err = l.L.Call(len(args), lua.LUA_MULTRET) left m.
callReturned(m, top) ==
    IF m.st # "ok" THEN Returned(m, Escaped(m), <<>>)
    ELSE IF m.callerr = "nil"
    THEN Returned(SetTop([m EXCEPT !.stack = <<>>], top), "nil", popAll(m))
    ELSE Returned(SetTop(m, top), "error", <<>>)

\* Call after its loop over the arguments left m.
callPushed(m, top, nargs) ==
    CASE m.st = "error" -> Returned(SetTop(m, top), "error", <<>>)
      [] m.st = "ok" -> callReturned(goluaCall(m, nargs), top)
      [] OTHER -> Returned(m, Escaped(m), <<>>)

\* Luna.Call.  The deferred l.L.SetTop(top) runs only when err != nil, so
\* not when a panic passes through.
Call(m, name, args) ==
    callPushed(pushArgs(GetGlobal(m, name), args, 1), GetTop(m), Len(args))

\* Load after l.L.DoString left m.
loadReturned(m) ==
    Returned(m, IF m.st # "ok" THEN Escaped(m) ELSE m.callerr, <<>>)

\* Luna.Load: l.L.DoString(src), which is luaL_loadstring and then
\* l.L.Call(0, LUA_MULTRET).  Nothing is taken off the stack afterwards.
Load(m, chunk) ==
    IF chunk.bad THEN Returned(Push(m, ErrMsg), "error", <<>>)
    ELSE loadReturned(goluaCall(Push(m, LFunc(chunk.body)), 0))

RECURSIVE pushMembers(_, _, _)

\* The loop of CreateLibrary over the members; the library table is at -1.
pushMembers(m, members, i) ==
    IF m.st # "ok" \/ i > Len(members) THEN m
    ELSE pushMembers(SetFieldAfter(pushArg(m, members[i].Val), -2, members[i].Key),
                     members, i + 1)

\* CreateLibrary after l.L.SetGlobal(name) left m.
libraryReturned(m) ==
    Returned(m, IF m.st = "ok" THEN "nil" ELSE Escaped(m), <<>>)

\* CreateLibrary after its loop over the members left m.
libraryPushed(m, top, name) ==
    CASE m.st = "error" -> Returned(SetTop(m, top), "error", <<>>)
      [] m.st = "ok" -> libraryReturned(SetGlobal(m, name))
      [] OTHER -> Returned(m, Escaped(m), <<>>)

\* Luna.CreateLibrary
CreateLibrary(m, name, members) ==
    libraryPushed(pushMembers(NewTable(m), members, 1), GetTop(m), name)

\* printGen(w): func(args ...string)
printGen ==
    [name |-> "print", params |-> <<HSlice(<<>>)>>, variadic |-> TRUE,
     velem |-> HStr(""), rets |-> <<>>]

\* Luna.Stdout: l.L.Register("print", wrapperGen(...))
Stdout(m) == Returned(SetGlobal(PushGoFunction(m, printGen), "print"), "nil", <<>>)

\* FunctionExists after l.L.GetGlobal(name) left m.
existsReturned(m, top) ==
    Returned(SetTop(m, top),
             IF ValueAt(m, -1).kind = "function" THEN "true" ELSE "false", <<>>)

\* Luna.FunctionExists
FunctionExists(m, name) == existsReturned(GetGlobal(m, name), GetTop(m))

(* ------------------------------ the inputs ---------------------------- *)

\* func(val int), the library member of TestCreateLibrary
FunInt ==
    [name |-> "fun", params |-> <<HInt(0)>>, variadic |-> FALSE,
     velem |-> HNil, rets |-> <<>>]

\* func(d string), the library member of TestInvalidLuaToGo
FunStr ==
    [name |-> "func", params |-> <<HStr("")>>, variadic |-> FALSE,
     velem |-> HNil, rets |-> <<>>]

\* func(d DataWithPrivate), DataWithPrivate being struct { A int; b string }
FunData ==
    [name |-> "data",
     params |-> <<HStruct(<<[name |-> "A", exported |-> TRUE, v |-> HInt(0)],
                            [name |-> "b", exported |-> FALSE, v |-> HStr("")]>>)>>,
     variadic |-> FALSE, velem |-> HNil, rets |-> <<>>]

\* func(d DataWithPrivate, n int)
FunBoth ==
    [name |-> "both",
     params |-> <<HStruct(<<[name |-> "A", exported |-> TRUE, v |-> HInt(0)],
                            [name |-> "b", exported |-> FALSE, v |-> HStr("")]>>),
                  HInt(0)>>,
     variadic |-> FALSE, velem |-> HNil, rets |-> <<>>]

LuaBody(defs, calls, r, consts) ==
    [defs |-> defs, calls |-> calls, ret |-> r, consts |-> consts]

\* function echo(v) return v end
EchoFn == LFunc(LuaBody(<<>>, <<>>, "arg1", <<>>))

\* function returnMult() return 5, 3 end
ReturnMultFn == LFunc(LuaBody(<<>>, <<>>, "consts", <<LNum(5), LNum(3)>>))

\* function callMe() testlib.func(5) end
CallMeFn ==
    LFunc(LuaBody(<<>>,
                  <<[lib |-> "testlib", member |-> "func", args |-> <<LNum(5)>>]>>,
                  "consts", <<>>))

\* function callShort() testlib.fun() end
CallShortFn ==
    LFunc(LuaBody(<<>>,
                  <<[lib |-> "testlib", member |-> "fun", args |-> <<>>]>>,
                  "consts", <<>>))

\* The Lua sources given to Load.
Chunks ==
    << \* the function definitions of the tests
       [bad |-> FALSE,
        body |-> LuaBody(<< <<"echo", EchoFn>>, <<"returnMult", ReturnMultFn>>,
                            <<"callMe", CallMeFn>>, <<"callShort", CallShortFn>> >>,
                         <<>>, "consts", <<>>)],
       \* return 7
       [bad |-> FALSE, body |-> LuaBody(<<>>, <<>>, "consts", <<LNum(7)>>)],
       \* a source that does not compile
       [bad |-> TRUE, body |-> LuaBody(<<>>, <<>>, "consts", <<>>)],
       \* testlib.fun()
       [bad |-> FALSE,
        body |-> LuaBody(<<>>,
                         <<[lib |-> "testlib", member |-> "fun", args |-> <<>>]>>,
                         "consts", <<>>)],
       \* testlib.fun(5)
       [bad |-> FALSE,
        body |-> LuaBody(<<>>,
                         <<[lib |-> "testlib", member |-> "fun",
                            args |-> <<LNum(5)>>]>>,
                         "consts", <<>>)],
       \* testlib.data({A=3, Z='hi'})
       [bad |-> FALSE,
        body |-> LuaBody(<<>>,
                         <<[lib |-> "testlib", member |-> "data",
                            args |-> <<LTable(<< <<LStr("A"), LNum(3)>>,
                                                 <<LStr("Z"), LStr("hi")>> >>)>>]>>,
                         "consts", <<>>)],
       \* testlib.data({A=3, b='x'})
       [bad |-> FALSE,
        body |-> LuaBody(<<>>,
                         <<[lib |-> "testlib", member |-> "data",
                            args |-> <<LTable(<< <<LStr("A"), LNum(3)>>,
                                                 <<LStr("b"), LStr("x")>> >>)>>]>>,
                         "consts", <<>>)],
       \* testlib.data({Z='hi'})
       [bad |-> FALSE,
        body |-> LuaBody(<<>>,
                         <<[lib |-> "testlib", member |-> "data",
                            args |-> <<LTable(<< <<LStr("Z"), LStr("hi")>> >>)>>]>>,
                         "consts", <<>>)],
       \* print('a')
       [bad |-> FALSE,
        body |-> LuaBody(<<>>,
                         <<[lib |-> "", member |-> "print", args |-> <<LStr("a")>>]>>,
                         "consts", <<>>)],
       \* print('a', 'b')
       [bad |-> FALSE,
        body |-> LuaBody(<<>>,
                         <<[lib |-> "", member |-> "print",
                            args |-> <<LStr("a"), LStr("b")>>]>>,
                         "consts", <<>>)],
       \* print()
       [bad |-> FALSE,
        body |-> LuaBody(<<>>,
                         <<[lib |-> "", member |-> "print", args |-> <<>>]>>,
                         "consts", <<>>)],
       \* testlib.both({A=3}, 5)
       [bad |-> FALSE,
        body |-> LuaBody(<<>>,
                         <<[lib |-> "testlib", member |-> "both",
                            args |-> <<LTable(<< <<LStr("A"), LNum(3)>> >>), LNum(5)>>]>>,
                         "consts", <<>>)] >>

\* struct { C chan bool }
InvalidStruct == HStruct(<<[name |-> "C", exported |-> TRUE, v |-> HChan]>>)

\* []int{3, 5, 7, 9}
SliceData == HSlice(<<HInt(3), HInt(5), HInt(7), HInt(9)>>)

\* DataWithPrivate{A: 3, b: "hi"}
DataWithPrivate ==
    HStruct(<<[name |-> "A", exported |-> TRUE, v |-> HInt(3)],
              [name |-> "b", exported |-> FALSE, v |-> HStr("hi")]>>)

\* map[[1]int]int{{1}: 1}
ArrayKeyMap == HMap(<< <<[kind |-> "array", val |-> <<HInt(1)>>], HInt(1)>> >>)

\* pp, for n := 5; p := &n; pp := &p
DoublePointer == HPtr(<<HPtr(<<HInt(5)>>)>>)

\* The calls the host makes: <<name, args>>.
CallInputs ==
    << <<"echo", <<HFloat(4)>> >>,
       <<"echo", <<HStr("hi")>> >>,
       <<"echo", <<HBool(TRUE)>> >>,
       <<"echo", <<HNil>> >>,
       <<"returnMult", <<>> >>,
       <<"callMe", <<>> >>,
       <<"callShort", <<>> >>,
       <<"noexists", <<InvalidStruct>> >>,
       <<"noexists", <<HSlice(<<HChan>>)>> >>,
       <<"echo", <<HInt(3), HSlice(<<HInt(1), HChan>>)>> >>,
       <<"echo", <<HPtr(<<>>), HChan>> >>,
       <<"echo", <<SliceData>> >>,
       <<"echo", <<DataWithPrivate>> >>,
       <<"echo", <<ArrayKeyMap>> >>,
       <<"echo", <<DoublePointer>> >>,
       <<"echo", <<HPtr(<<>>)>> >> >>

\* The libraries the host defines: the members of testlib.
LibraryInputs ==
    << << [Key |-> "fun", Val |-> HFunc(FunInt)], [Key |-> "val", Val |-> HInt(5)] >>,
       << [Key |-> "func", Val |-> HFunc(FunStr)] >>,
       << [Key |-> "invalid", Val |-> HChan] >>,
       << [Key |-> "val", Val |-> HInt(5)], [Key |-> "invalid", Val |-> InvalidStruct] >>,
       << [Key |-> "p", Val |-> HPtr(<<>>)], [Key |-> "invalid", Val |-> HChan] >>,
       << [Key |-> "list", Val |-> SliceData] >>,
       << [Key |-> "data", Val |-> DataWithPrivate] >>,
       << [Key |-> "data", Val |-> HFunc(FunData)] >>,
       << [Key |-> "both", Val |-> HFunc(FunBoth)] >>,
       << [Key |-> "m", Val |-> ArrayKeyMap] >> >>

\* The destinations the host unmarshals into: n := 7, s := "s", a []int{1},
\* a []string(nil), a [1]int, a struct { A int } and a map[string]int.
Destinations ==
    << HInt(7),
       HStr("s"),
       DSlice(HInt(0), <<HInt(1)>>),
       DSlice(HStr(""), <<>>),
       DArray(HInt(0), <<HInt(0)>>),
       HStruct(<<[name |-> "A", exported |-> TRUE, v |-> HStr("")]>>),
       DMap("string", HStr(""), <<>>) >>

(* ------------------- one host applying the operations ----------------- *)

\* The host may go on after an error or a recovered panic, not after an
\* undefined use of the Lua API.
CanApply == nops < MaxOps /\ err # "ub"

Applied(r, what) ==
    /\ stack' = r.m.stack
    /\ globals' = r.m.globals
    /\ closures' = r.m.closures
    /\ log' = r.m.log
    /\ err' = r.err
    /\ ret' = r.ret
    /\ last' = [what EXCEPT !.top = Len(stack), !.events = r.m.events,
                            !.logn = Len(log)]
    /\ nops' = nops + 1
    /\ UNCHANGED <<dest, convars>>

Op(o, name, args) ==
    [op |-> o, name |-> name, args |-> args, top |-> 0, events |-> {},
     logn |-> 0, before |-> TableGet(globals, LStr(name))]

DoLoad(c) ==
    /\ CanApply
    /\ Applied(Load(Machine, Chunks[c]), Op("Load", "", <<Chunks[c]>>))

DoCall(c) ==
    /\ CanApply
    /\ Applied(Call(Machine, CallInputs[c][1], CallInputs[c][2]),
               Op("Call", CallInputs[c][1], CallInputs[c][2]))

DoCreateLibrary(c) ==
    /\ CanApply
    /\ Applied(CreateLibrary(Machine, "testlib", LibraryInputs[c]),
               Op("CreateLibrary", "testlib", LibraryInputs[c]))

DoStdout ==
    /\ CanApply
    /\ Applied(Stdout(Machine), Op("Stdout", "print", <<>>))

DoFunctionExists(name) ==
    /\ CanApply
    /\ Applied(FunctionExists(Machine, name), Op("FunctionExists", name, <<>>))

\* ret.Unmarshal(&d) on what the last Call returned
DoUnmarshal(d) ==
    /\ CanApply
    /\ dest' = RetUnmarshal(ret, Destinations[d]).slot
    /\ err' = RetUnmarshal(ret, Destinations[d]).err
    /\ last' = [Op("Unmarshal", "", <<Destinations[d]>>) EXCEPT !.top = Len(stack),
                                                               !.logn = Len(log)]
    /\ nops' = nops + 1
    /\ UNCHANGED <<stack, globals, closures, log, ret, convars>>

SeqNext ==
    \/ \E c \in 1..Len(Chunks) : DoLoad(c)
    \/ \E c \in 1..Len(CallInputs) : DoCall(c)
    \/ \E c \in 1..Len(LibraryInputs) : DoCreateLibrary(c)
    \/ DoStdout
    \/ \E name \in {"echo", "testlib"} : DoFunctionExists(name)
    \/ \E d \in 1..Len(Destinations) : DoUnmarshal(d)

SeqSpec == Init /\ [][SeqNext]_vars

(* ------------------------ claims: serialization ----------------------- *)

\* The goroutines that are between l.mut.Lock() and l.mut.Unlock().
Holders ==
    {p \in Procs : /\ op[p] \in LockedOps
                   /\ pc[p] \in {"run", "unlock", "in_lock", "in_run", "in_unlock"}}

\* C1: at most one of Load, LoadFile, Call, CreateLibrary, Stdout and Close
\* is between acquiring and releasing the mutex, in every reachable state.
C1_MutualExclusion == Cardinality(Holders) <= 1

\* C1 witness: one caller holds the mutex while another waits for it.
C1_Witness ==
    \E p, q \in Procs : p # q /\ pc[p] = "run" /\ pc[q] = "lock"

\* C2 as stated: no step of FunctionExists that reads or writes the Lua
\* stack is taken while another caller's Load, Call or CreateLibrary is in
\* progress on the instance.
C2_ProbeExcluded ==
    [][\A p \in Procs :
          (pc[p] \in {"fe_gettop", "fe_getglobal", "fe_settop"} /\ pc'[p] # pc[p])
             => ~\E q \in Procs :
                    /\ q # p
                    /\ op[q] \in {"Load", "Call", "CreateLibrary"}
                    /\ pc[q] = "run"]_vars

\* C3 as stated: a Load, LoadFile, Call or CreateLibrary called after Close
\* returned never executes against the released Lua state and returns a
\* closed-instance error.
C3_ClosedRejects ==
    \A p \in Procs :
        (late[p] /\ op[p] \in {"Load", "LoadFile", "Call", "CreateLibrary"})
            => /\ pc[p] # "run"
               /\ (pc[p] \in {"unlock", "idle"} => res[p] = "closed")

\* C4 as stated: a caller of Call is never still waiting inside Call once
\* the script has run past the deadline; by then it has been given Timeout.
C4_TimeoutAtDeadline ==
    \A p \in Procs :
        (op[p] = "Call" /\ elapsed[p] > Deadline)
            => (pc[p] = "idle" /\ res[p] = "timeout")


(* ------------------- claims: errors of the operations ----------------- *)

RECURSIVE HasChan(_)

\* A host value that is, or holds in an exported struct field, a slice
\* element, a map value or behind a pointer, a channel.
HasChan(v) ==
    CASE v.kind = "chan" -> TRUE
      [] v.kind = "struct" ->
            \E k \in 1..Len(v.val) : v.val[k].exported /\ HasChan(v.val[k].v)
      [] v.kind \in {"array", "slice"} -> \E k \in 1..Len(v.val) : HasChan(v.val[k])
      [] v.kind = "map" -> \E k \in 1..Len(v.val) : HasChan(v.val[k][2])
      [] v.kind = "ptr" -> v.val # <<>> /\ HasChan(v.val[1])
      [] OTHER -> FALSE

\* C5: a CreateLibrary with a member that cannot be encoded (a channel)
\* returns an error, leaves the global of the library as it was and the
\* stack at the height it had on entry.
C5_LibraryAllOrNothing ==
    (/\ last.op = "CreateLibrary"
     /\ \E k \in 1..Len(last.args) : HasChan(last.args[k].Val))
    => /\ err = "error"
       /\ SameL(TableGet(globals, LStr(last.name)), last.before)
       /\ Len(stack) = last.top

\* C6: a Call with an argument that is or holds a channel returns an error,
\* calls no Lua function, and leaves the stack at the height it had before.
C6_CallEncodeError ==
    (/\ last.op = "Call"
     /\ \E k \in 1..Len(last.args) : HasChan(last.args[k]))
    => /\ err = "error"
       /\ "pcall" \notin last.events
       /\ Len(stack) = last.top

\* C7: when a script calls a bridged function with fewer arguments than it
\* has parameters, no host function body runs and the enclosing Load or Call
\* returns an error.
C7_ArityIsError ==
    (last.op \in {"Load", "Call"} /\ "arity" \in last.events)
    => /\ Len(log) = last.logn
       /\ err = "error"

\* C8: when a script calls a bridged function with an argument that cannot
\* be decoded into the parameter, no host function body runs and the
\* enclosing Load or Call returns an error.
C8_DecodeAborts ==
    (last.op \in {"Load", "Call"} /\ "decode" \in last.events)
    => /\ Len(log) = last.logn
       /\ err = "error"

\* The LuaValue that a primitive host value comes back as.
Echoed(v) ==
    CASE v.kind = "string" -> [kind |-> "LuaString", val |-> v.val]
      [] v.kind = "bool" -> [kind |-> "LuaBool", val |-> v.val]
      [] v.kind = "nil" -> [kind |-> "LuaNil", val |-> 0]
      [] OTHER -> [kind |-> "LuaNumber", val |-> v.val]

\* C9: a Call of the Lua identity function with one primitive value returns
\* exactly one value, equal to the one passed.
C9_RoundTrip ==
    (/\ last.op = "Call"
     /\ last.name = "echo"
     /\ SameL(last.before, EchoFn)
     /\ Len(last.args) = 1
     /\ IsBasic(last.args[1]))
    => /\ err = "nil"
       /\ Len(ret) = 1
       /\ ret[1].kind = Echoed(last.args[1]).kind
       /\ ret[1].val = Echoed(last.args[1]).val

\* C10: a successful Call of a Lua function that returns n values gives a
\* LuaRet of n elements, element k being the k-th value returned, whatever
\* operations came before.
C10_ReturnCount ==
    (/\ last.op = "Call"
     /\ err = "nil"
     /\ SameL(last.before, ReturnMultFn))
    => /\ Len(ret) = Len(ReturnMultFn.val.consts)
       /\ \A k \in 1..Len(ret) :
             /\ ret[k].kind = "LuaNumber"
             /\ ret[k].val = ReturnMultFn.val.consts[k].val

(* ------------------------ claims: the encoding ------------------------ *)

\* The Lua value of a primitive host value.
EncodedBasic(v) ==
    CASE v.kind = "string" -> LStr(v.val)
      [] v.kind = "bool" -> LBool(v.val)
      [] v.kind = "nil" -> LNil
      [] OTHER -> LNum(v.val)

\* A slice or array whose elements are all primitive values.
IsBasicSlice(v) ==
    v.kind \in {"array", "slice"} /\ \A i \in 1..Len(v.val) : IsBasic(v.val[i])

\* The table t has the elements of the slice v at the keys 1..n and no
\* other key.
SliceTable(t, v) ==
    /\ t.kind = "table"
    /\ \A j \in 1..Len(t.val) :
          t.val[j][1].kind = "number" /\ t.val[j][1].val \in 1..Len(v.val)
    /\ \A i \in 1..Len(v.val) : SameL(TableGet(t.val, LNum(i)), EncodedBasic(v.val[i]))
    /\ TableGet(t.val, LNum(0)).kind = "nil"
    /\ TableGet(t.val, LNum(Len(v.val) + 1)).kind = "nil"

\* The member of the library testlib under a key, nil when there is none.
LibraryMember(key) ==
    LET lib == TableGet(globals, LStr("testlib"))
    IN  IF lib.kind = "table" THEN TableGet(lib.val, LStr(key)) ELSE LNil

\* The Lua value a decoded LuaValue came from, for the kinds of a slice table.
LuaOf(lv) ==
    CASE lv.kind = "LuaNumber" -> LNum(lv.val)
      [] lv.kind = "LuaString" -> LStr(lv.val)
      [] lv.kind = "LuaBool" -> LBool(lv.val)
      [] OTHER -> LNil

\* The table a LuaTable was decoded from, when all its keys are numbers.
IndexedTable(lv) ==
    LTable([j \in 1..Len(lv.val.indexed) |->
               <<LNum(lv.val.indexed[j][1]), LuaOf(lv.val.indexed[j][2])>>])

\* C11: a slice of length n given to CreateLibrary or to Call is encoded as
\* a table with the keys 1..n, key i holding the i-th element, and without
\* the keys 0 and n+1.
C11_SliceKeys ==
    /\ (last.op = "CreateLibrary" /\ err = "nil")
       => \A k \in 1..Len(last.args) :
             IsBasicSlice(last.args[k].Val)
             => SliceTable(LibraryMember(last.args[k].Key), last.args[k].Val)
    /\ (/\ last.op = "Call"
        /\ err = "nil"
        /\ SameL(last.before, EchoFn)
        /\ Len(last.args) = 1
        /\ IsBasicSlice(last.args[1]))
       => /\ ret[Len(ret)].kind = "LuaTable"
          /\ ret[Len(ret)].val.mapped = <<>>
          /\ ret[Len(ret)].val.booled = <<>>
          /\ SliceTable(IndexedTable(ret[Len(ret)]), last.args[1])

C11_Witness ==
    /\ last.op = "Call"
    /\ err = "nil"
    /\ SameL(last.before, EchoFn)
    /\ Len(last.args) = 1
    /\ IsBasicSlice(last.args[1])
    /\ Len(last.args[1].val) >= 2
    /\ Len(ret[Len(ret)].val.indexed) = Len(last.args[1].val)

\* A struct whose exported fields all hold primitive values other than nil.
IsPlainStruct(v) ==
    /\ v.kind = "struct"
    /\ \A i \in 1..Len(v.val) :
          v.val[i].exported => IsBasic(v.val[i].v) /\ v.val[i].v.kind # "nil"

\* The names of the exported fields of a struct.
ExportedNames(v) == {v.val[i].name : i \in {j \in 1..Len(v.val) : v.val[j].exported}}

\* The table t has the exported fields of the struct v, under their names,
\* and no other key.
StructTable(t, v) ==
    /\ t.kind = "table"
    /\ \A j \in 1..Len(t.val) : t.val[j][1].kind = "string"
    /\ {t.val[j][1].val : j \in 1..Len(t.val)} = ExportedNames(v)
    /\ \A i \in 1..Len(v.val) :
          v.val[i].exported
          => SameL(TableGet(t.val, LStr(v.val[i].name)), EncodedBasic(v.val[i].v))

\* The table a LuaTable was decoded from, when all its keys are strings.
MappedTable(lv) ==
    LTable([j \in 1..Len(lv.val.mapped) |->
               <<LStr(lv.val.mapped[j][1]), LuaOf(lv.val.mapped[j][2])>>])

\* C12: a struct is encoded as a table whose keys are the names of its
\* exported fields; an unexported field gives no key and does not make the
\* encoding fail.
C12_StructKeys ==
    /\ (/\ last.op = "CreateLibrary"
        /\ \A k \in 1..Len(last.args) : IsPlainStruct(last.args[k].Val))
       => /\ err = "nil"
          /\ \A k \in 1..Len(last.args) :
                StructTable(LibraryMember(last.args[k].Key), last.args[k].Val)
    /\ (/\ last.op = "Call"
        /\ SameL(last.before, EchoFn)
        /\ Len(last.args) = 1
        /\ IsPlainStruct(last.args[1]))
       => /\ err = "nil"
          /\ ret[Len(ret)].kind = "LuaTable"
          /\ ret[Len(ret)].val.indexed = <<>>
          /\ ret[Len(ret)].val.booled = <<>>
          /\ StructTable(MappedTable(ret[Len(ret)]), last.args[1])

C12_Witness ==
    /\ last.op = "CreateLibrary"
    /\ err = "nil"
    /\ \E k \in 1..Len(last.args) :
          /\ IsPlainStruct(last.args[k].Val)
          /\ \E i \in 1..Len(last.args[k].Val.val) : ~last.args[k].Val.val[i].exported
          /\ LibraryMember(last.args[k].Key).kind = "table"

\* A map with a key that is not a number, a string or a boolean.
HasBadKey(v) ==
    v.kind = "map" /\ \E k \in 1..Len(v.val) : v.val[k][1].kind \notin BasicKinds \ {"nil"}

\* C14: a Call or CreateLibrary that is given a map with a key that is not
\* a primitive value returns an error.
C14_MapKeyError ==
    /\ (last.op = "CreateLibrary" /\ \E k \in 1..Len(last.args) : HasBadKey(last.args[k].Val))
       => err = "error"
    /\ (last.op = "Call" /\ \E k \in 1..Len(last.args) : HasBadKey(last.args[k]))
       => err = "error"

\* A pointer to a pointer.
IsDoublePointer(v) == v.kind = "ptr" /\ v.val # <<>> /\ v.val[1].kind = "ptr"

\* C15: a Call or CreateLibrary that is given a pointer to a pointer
\* returns an error instead of following the pointers.
C15_DoublePointerError ==
    /\ (last.op = "CreateLibrary" /\ \E k \in 1..Len(last.args) : IsDoublePointer(last.args[k].Val))
       => err = "error"
    /\ (last.op = "Call" /\ \E k \in 1..Len(last.args) : IsDoublePointer(last.args[k]))
       => err = "error"

\* C16: a nil pointer given to Call is encoded as nil: the Call of the
\* identity function with it succeeds and returns nil.
C16_NilPointerIsNil ==
    (/\ last.op = "Call"
     /\ SameL(last.before, EchoFn)
     /\ Len(last.args) = 1
     /\ last.args[1].kind = "ptr"
     /\ last.args[1].val = <<>>)
    => /\ err = "nil"
       /\ ret[Len(ret)].kind = "LuaNil"

(* ------------------- claims: the bridged functions -------------------- *)

\* The one call lib.member(...) that the script of the last Load makes, or
\* the record of no call.
ScriptCall ==
    IF last.op = "Load" /\ ~last.args[1].bad /\ Len(last.args[1].body.calls) = 1
    THEN last.args[1].body.calls[1]
    ELSE [lib |-> "", member |-> "", args |-> <<>>]

\* The host function that the script of the last Load calls: the function
\* of the closure it names, or a function without parameters.
ScriptCallee ==
    LET g == IF ScriptCall.lib = "" THEN TableGet(globals, LStr(ScriptCall.member))
             ELSE LibraryMember(ScriptCall.member)
    IN  IF ScriptCall.member # "" /\ g.kind = "gofunction"
        THEN closures[g.val].f
        ELSE [name |-> "", params |-> <<>>, variadic |-> FALSE, velem |-> HNil,
              rets |-> <<>>]

\* C13: when a script passes a table to a bridged function with a struct
\* parameter, the function is called exactly once, without error, with a
\* struct whose exported fields named by the table hold the table's values
\* and whose unexported fields are as they were; keys that name no
\* exported field change nothing.
C13_TableToStruct ==
    (/\ Len(ScriptCall.args) = 1
     /\ ScriptCall.args[1].kind = "table"
     /\ Len(ScriptCallee.params) = 1
     /\ ScriptCallee.params[1].kind = "struct")
    => /\ err = "nil"
       /\ Len(log) = last.logn + 1
       /\ LET d == log[Len(log)].args[1]
              z == ScriptCallee.params[1]
              t == ScriptCall.args[1].val
          IN  \A i \in 1..Len(d.val) :
                 IF d.val[i].exported /\ TableGet(t, LStr(d.val[i].name)).kind # "nil"
                 THEN d.val[i].v.val = TableGet(t, LStr(d.val[i].name)).val
                 ELSE d.val[i].v = z.val[i].v

\* C18: a bridged function with a struct parameter, called by a script
\* with a table, gets a struct in which every field that the table does not
\* name has its zero value, whatever earlier calls were given.
C18_FreshSlots ==
    (/\ Len(ScriptCall.args) = 1
     /\ ScriptCall.args[1].kind = "table"
     /\ Len(ScriptCallee.params) = 1
     /\ ScriptCallee.params[1].kind = "struct"
     /\ Len(log) = last.logn + 1)
    => \A i \in 1..Len(ScriptCallee.params[1].val) :
          TableGet(ScriptCall.args[1].val, LStr(ScriptCallee.params[1].val[i].name)).kind = "nil"
          => log[Len(log)].args[1].val[i].v = ScriptCallee.params[1].val[i].v

\* C19: a bridged variadic function with f fixed parameters, called by a
\* script with n >= f string arguments, is called with the n - f last
\* arguments, in order, as its variadic collection.
C19_Variadic ==
    (/\ ScriptCallee.variadic
     /\ Len(ScriptCall.args) >= Len(ScriptCallee.params) - 1
     /\ \A k \in 1..Len(ScriptCall.args) : ScriptCall.args[k].kind = "string")
    => /\ err = "nil"
       /\ Len(log) = last.logn + 1
       /\ LET f == Len(ScriptCallee.params) - 1
              rest == log[Len(log)].args[f + 1].val
          IN  /\ Len(rest) = Len(ScriptCall.args) - f
              /\ \A k \in 1..Len(rest) : rest[k].val = ScriptCall.args[f + k].val

(* --------------------------- claims: Unmarshal ------------------------ *)

\* C17: Unmarshal of nil into a destination of a nilable kind (pointer,
\* map, slice) succeeds and resets the destination to its zero value; into
\* a destination of any other kind it returns an error and leaves the
\* destination as it was.
C17_NilUnmarshal ==
    (/\ last.op = "Unmarshal"
     /\ Len(ret) = 1
     /\ ret[1].kind = "LuaNil")
    => IF last.args[1].kind \in {"ptr", "map", "slice"}
       THEN err = "nil" /\ dest.kind = last.args[1].kind /\ dest.val = <<>>
       ELSE err = "error" /\ dest = last.args[1]

\* A nested value of the table lv that is no table and is not convertible
\* to the element, field or value type of the destination it goes to.
NestedFails(lv, slot) ==
    CASE slot.kind \in {"slice", "array"} ->
            \E i \in 1..Len(Items(lv.val.indexed, 1)) :
                /\ Items(lv.val.indexed, 1)[i].kind # "LuaTable"
                /\ ~ConvertibleTo(Items(lv.val.indexed, 1)[i], slot.elem)
      [] slot.kind = "struct" ->
            \E j \in 1..Len(lv.val.mapped) :
                /\ FieldIndex(slot, Title(lv.val.mapped[j][1])) # 0
                /\ lv.val.mapped[j][2].kind # "LuaTable"
                /\ ~ConvertibleTo(lv.val.mapped[j][2],
                                  slot.val[FieldIndex(slot, Title(lv.val.mapped[j][1]))].v)
      [] slot.kind = "map" ->
            \E j \in 1..Len(mapSource(lv, slot.key)) :
                /\ mapSource(lv, slot.key)[j][2].kind # "LuaTable"
                /\ ~ConvertibleTo(mapSource(lv, slot.key)[j][2], slot.elem)
      [] OTHER -> FALSE

\* C20: when a nested value of a returned table does not convert to the
\* element type of the destination, Unmarshal of the table returns an error.
C20_NestedFailureIsError ==
    (/\ last.op = "Unmarshal"
     /\ Len(ret) = 1
     /\ ret[1].kind = "LuaTable"
     /\ NestedFails(ret[1], last.args[1]))
    => err = "error"

(* --------------------------- claims: the stack ------------------------ *)

\* The operations of the host that work on the interpreter stack.
StackOps == {"Load", "Call", "CreateLibrary", "Stdout", "FunctionExists"}

\* C21: after Load, Call, CreateLibrary, Stdout or FunctionExists has
\* returned, with or without an error, the interpreter stack is as high as
\* it was when the operation began.
C21_StackBalance ==
    (last.op \in StackOps /\ err \in {"nil", "error"}) => Len(stack) = last.top

\* C22: when a script passes a table as the first argument of a bridged
\* function whose first parameter is a struct, and the function is called,
\* the stack of the call still holds every argument, and each later number
\* argument reaches its integer parameter.
C22_DecodeKeepsStack ==
    (/\ Len(ScriptCall.args) >= 1
     /\ ScriptCall.args[1].kind = "table"
     /\ Len(ScriptCallee.params) = Len(ScriptCall.args)
     /\ ScriptCallee.params[1].kind = "struct"
     /\ Len(log) = last.logn + 1)
    => /\ log[Len(log)].top = Len(ScriptCall.args)
       /\ \A k \in 2..Len(ScriptCall.args) :
             (ScriptCall.args[k].kind = "number" /\ ScriptCallee.params[k].kind \in IntKinds)
             => log[Len(log)].args[k].val = ScriptCall.args[k].val

(* --------------------------- claims: progress ------------------------- *)

\* C23: a goroutine that is inside Load or Call, holding the mutex, comes
\* back to its caller with the mutex released (or the process has died of
\* a use of a closed Lua state), also when a host function called by its
\* script calls a method of the same instance.
C23_CallReturns ==
    \A p \in Procs :
        (op[p] \in {"Load", "Call"} /\ pc[p] = "run")
            ~> ((pc[p] = "idle" /\ ~locked) \/ crashed)

=============================================================================
